---------------------------- MODULE Spec2Model ----------------------------
(***************************************************************************)
(* Model of CommentRemover (src/remove_comments.py): the shell scanner     *)
(* remove_comments_from_shell, the C-like scanner                          *)
(* remove_comments_from_c_like and the filter should_preserve_comment.     *)
(*                                                                         *)
(* A text is a sequence of one-character strings.  Indices keep the        *)
(* source's 0-based numbering; Get reads position k of a text.  One        *)
(* action is one iteration of a scanner loop.  When a scan has returned,   *)
(* Rescan hands the cleaned text to the same scanner once more.            *)
(*                                                                         *)
(* DirSpec is process_directory: one action per target file handed to      *)
(* process_file (read, scan, write), the summary, and one action per       *)
(* directory that remove_empty_directories visits.  Under Spec the         *)
(* directory variables rest at DirIdle, under DirSpec the scanner          *)
(* variables rest at ScanIdle.                                             *)
(***************************************************************************)
EXTENDS Integers, Sequences, FiniteSets, TLC

VARIABLES
    lang,              \* "shell" or "c_like": the scanner process_file selects
    preserve_shebang,  \* CommentRemover.preserve_shebang
    content,           \* the text handed to the scanner
    pass,              \* 1: first scan, 2: scan of the first scan's result
    pc,                \* "while", "eol", "join", "done"
    sh,                \* locals of remove_comments_from_shell
    cl,                \* locals of remove_comments_from_c_like
    results,           \* the returned pairs (text, count), one per finished scan
    raised,            \* TRUE once an iteration has read outside its text
    is_dir,            \* os.path.isdir(directory)
    dry_run,           \* the dry_run argument
    remove_empty_dirs, \* the remove_empty_dirs argument
    targets,           \* find_target_files: the files, in order, as found
    disk,              \* the present content of each target file
    tree,              \* the directories under the root
    dpc,               \* "start", "loop", "dirs", "done", "aborted"
    log,               \* what process_file did for each target so far
    processed_files,   \* CommentRemover.processed_files
    total_comments_removed, \* CommentRemover.total_comments_removed
    modified_files,    \* local of process_directory
    summary,           \* the printed summary, <<>> before it is printed
    d,                 \* directories visited by remove_empty_directories
    removed_count      \* local of remove_empty_directories

scanvars == <<lang, content, pass, pc, sh, cl, results, raised>>

dirvars ==
    <<is_dir, dry_run, remove_empty_dirs, targets, disk, tree, dpc, log,
      processed_files, total_comments_removed, modified_files, summary, d,
      removed_count>>

vars == <<preserve_shebang, scanvars, dirvars>>

---------------------------------------------------------------------------
(* Bounds and inputs *)

MaxLen == 4

MaxFiles == 2

ShellAlphabet == {"#", "!", "'", "\"", "\\", "\n", " ", "a"}

\* the backtick character (the TLA+ lexer does not accept it in a string)
BackTick == "backtick"

CLikeAlphabet == {"/", "*", "'", "\"", "\\", "\n", BackTick, "a"}

Texts(A) == UNION {[1..k -> A] : k \in 0..MaxLen}

BuildTagInput ==
    <<"/", "/", "g", "o", ":", "b", "u", "i", "l", "d", " ", "l", "i", "n",
      "u", "x", "\n", "p", "a", "c", "k", "a", "g", "e", " ", "m", "a",
      "i", "n">>

ShebangInput ==
    <<"#", "!", "/", "b", "i", "n", "/", "s", "h", "\n", "#", " ", "r",
      "e", "g", "u", "l", "a", "r", " ", "c", "o", "m", "m", "e", "n", "t",
      "\n", "e", "c", "h", "o", " ", "h", "i">>

ShebangClaimed ==
    <<"#", "!", "/", "b", "i", "n", "/", "s", "h", "\n", "e", "c", "h",
      "o", " ", "h", "i">>

ShebangCleaned ==
    <<"#", "!", "/", "b", "i", "n", "/", "s", "h", "\n", "\n", "e", "c",
      "h", "o", " ", "h", "i">>

CrossLineInput ==
    <<"c", "o", "d", "e", "1", " ", "/", "*", " ", "l", "i", "n", "e", "1",
      "\n", "l", "i", "n", "e", "2", " ", "*", "/", " ", "c", "o", "d",
      "e", "2">>

CrossLineCleaned ==
    <<"c", "o", "d", "e", "1", " ", " ", "c", "o", "d", "e", "2">>

UnterminatedInput ==
    <<"c", "o", "d", "e", " ", "/", "*", " ", "n", "e", "v", "e", "r", " ",
      "c", "l", "o", "s", "e", "s">>

UnterminatedCleaned ==
    <<"c", "o", "d", "e", " ">>

EscapedQuoteLiteral ==
    <<"\"", "a", "\\", "\"", "b", "\"">>

\* a block comment that holds "/*/" and a second "/*"
NestedInput ==
    <<"/", "*", "/", "*", "*", "/", "a">>

CLikeInputs ==
    Texts(CLikeAlphabet)
        \cup {BuildTagInput, CrossLineInput, UnterminatedInput, NestedInput,
              EscapedQuoteLiteral,
              EscapedQuoteLiteral \o <<" ", "/", "/", "c">>,
              <<"\"", "a", "\\", "\"", "/", "/", "b", "\"">>,
              <<"\"", "a", "\\", "\"", "/", "*", "b", "\"">>}

\* a double-quoted literal that ends in an escaped backslash, then a comment
ParityInput ==
    <<"\"", "a", "\\", "\\", "\"", " ", "#", " ", "c">>

ShellInputs ==
    Texts(ShellAlphabet)
        \cup {ShebangInput, ParityInput,
              EscapedQuoteLiteral,
              EscapedQuoteLiteral \o <<" ", "#", "c">>,
              <<"\"", "a", "\\", "\"", "#", "b", "\"">>}

---------------------------------------------------------------------------
(* Python string primitives, on sequences of characters *)

Get(s, k) == s[k + 1]

Slice(s, from) == SubSeq(s, from + 1, Len(s))

\* the str.isspace characters this model can write
Whitespace == {" ", "\t", "\n", "\r"}

RECURSIVE RStrip(_)
RStrip(s) ==
    IF s # <<>> /\ s[Len(s)] \in Whitespace
    THEN RStrip(SubSeq(s, 1, Len(s) - 1))
    ELSE s

RECURSIVE LStrip(_)
LStrip(s) ==
    IF s # <<>> /\ s[1] \in Whitespace THEN LStrip(Tail(s)) ELSE s

Strip(s) == LStrip(RStrip(s))

StartsWith(s, prefix) ==
    Len(s) >= Len(prefix) /\ SubSeq(s, 1, Len(prefix)) = prefix

\* content.split at newlines: at least one line, no line holds a newline
RECURSIVE SplitFrom(_, _, _)
SplitFrom(s, k, cur) ==
    IF k > Len(s) THEN <<cur>>
    ELSE IF s[k] = "\n" THEN <<cur>> \o SplitFrom(s, k + 1, <<>>)
    ELSE SplitFrom(s, k + 1, Append(cur, s[k]))

Split(s) == SplitFrom(s, 1, <<>>)

\* the join of the lines with a newline between them
RECURSIVE Join(_)
Join(lines) ==
    IF Len(lines) = 0 THEN <<>>
    ELSE IF Len(lines) = 1 THEN lines[1]
    ELSE lines[1] \o <<"\n">> \o Join(Tail(lines))

---------------------------------------------------------------------------
(* should_preserve_comment *)

\* variant: a shebang is kept on any line
should_preserve_comment_any_line(preserve, comment, line_number) ==
    IF ~preserve THEN FALSE
    ELSE StartsWith(Strip(comment), <<"#", "!">>)

\* variant: the first line is taken to be number 1
should_preserve_comment_one_based(preserve, comment, line_number) ==
    IF ~preserve THEN FALSE
    ELSE line_number = 1 /\ StartsWith(Strip(comment), <<"#", "!">>)

should_preserve_comment(preserve, comment, line_number) ==
    IF ~preserve THEN FALSE
    ELSE line_number = 0 /\ StartsWith(Strip(comment), <<"#", "!">>)

---------------------------------------------------------------------------
(* remove_comments_from_shell *)

\* variant: the quote flags are carried over from the previous line
ShellLineStartKeepQuotes(s) ==
    [s EXCEPT !.cleaned_line = <<>>, !.j = 0]

ShellLineStart(s) ==
    [s EXCEPT !.cleaned_line = <<>>, !.j = 0,
              !.in_single_quote = FALSE, !.in_double_quote = FALSE]

ShellEntry(text) ==
    ShellLineStart(
        [lines |-> Split(text), cleaned_lines |-> <<>>,
         comments_removed |-> 0, i |-> 0, j |-> 0, cleaned_line |-> <<>>,
         in_single_quote |-> FALSE, in_double_quote |-> FALSE,
         broke |-> FALSE])

ShellLine(s) == s.lines[s.i + 1]

\* the single-quote branch
ShellSingleQuote(s, char) ==
    [s EXCEPT !.in_single_quote = ~s.in_single_quote,
              !.cleaned_line = Append(@, char),
              !.j = @ + 1]

\* the double-quote branch
ShellDoubleQuote(s, char) ==
    LET line == ShellLine(s)
        closes == s.j > 0 /\ Get(line, s.j - 1) # "\\"
    IN  [s EXCEPT !.in_double_quote =
                      IF ~s.in_double_quote THEN TRUE
                      ELSE IF closes THEN FALSE
                      ELSE @,
                  !.cleaned_line = Append(@, char),
                  !.j = @ + 1]

\* the backslash branch inside a double quote
ShellEscape(s, char) ==
    [s EXCEPT !.cleaned_line = @ \o <<char, Get(ShellLine(s), s.j + 1)>>,
              !.j = @ + 2]

\* the copy branches
ShellCopy(s, char) ==
    [s EXCEPT !.cleaned_line = Append(@, char), !.j = @ + 1]

\* variant: the counter is incremented before the filter is consulted
ShellHashCountFirst(s, preserve) ==
    LET comment_content == Slice(ShellLine(s), s.j)
    IN  IF ~should_preserve_comment(preserve, comment_content, s.i)
        THEN [s EXCEPT !.comments_removed = @ + 1, !.broke = TRUE]
        ELSE [s EXCEPT !.comments_removed = @ + 1,
                       !.cleaned_line = @ \o comment_content,
                       !.broke = TRUE]

\* the # branch; both arms break out of the while loop
ShellHash(s, preserve) ==
    LET comment_content == Slice(ShellLine(s), s.j)
    IN  IF ~should_preserve_comment(preserve, comment_content, s.i)
        THEN [s EXCEPT !.comments_removed = @ + 1, !.broke = TRUE]
        ELSE [s EXCEPT !.cleaned_line = @ \o comment_content,
                       !.broke = TRUE]

\* variant: a double quote toggles its flag inside a single quote too
ShellStepQuoteInQuote(s, preserve) ==
    LET line == ShellLine(s)
        char == Get(line, s.j)
    IN  IF char = "'" /\ ~s.in_double_quote
        THEN ShellSingleQuote(s, char)
        ELSE IF char = "\""
        THEN ShellDoubleQuote(s, char)
        ELSE IF s.in_double_quote /\ char = "\\" /\ s.j + 1 < Len(line)
        THEN ShellEscape(s, char)
        ELSE IF s.in_single_quote \/ s.in_double_quote
        THEN ShellCopy(s, char)
        ELSE IF char = "#"
        THEN ShellHash(s, preserve)
        ELSE ShellCopy(s, char)

\* one iteration of the while loop
ShellStep(s, preserve) ==
    LET line == ShellLine(s)
        char == Get(line, s.j)
    IN  IF char = "'" /\ ~s.in_double_quote
        THEN ShellSingleQuote(s, char)
        ELSE IF char = "\"" /\ ~s.in_single_quote
        THEN ShellDoubleQuote(s, char)
        ELSE IF s.in_double_quote /\ char = "\\" /\ s.j + 1 < Len(line)
        THEN ShellEscape(s, char)
        ELSE IF s.in_single_quote \/ s.in_double_quote
        THEN ShellCopy(s, char)
        ELSE IF char = "#"
        THEN ShellHash(s, preserve)
        ELSE ShellCopy(s, char)

\* the positions of the line that one iteration reads
ShellReads(s) ==
    LET line == ShellLine(s)
        char == Get(line, s.j)
    IN  {s.j}
        \cup (IF ~(char = "'" /\ ~s.in_double_quote)
                 /\ char = "\"" /\ ~s.in_single_quote
                 /\ s.in_double_quote /\ s.j > 0
              THEN {s.j - 1} ELSE {})
        \cup (IF ~(char = "'" /\ ~s.in_double_quote)
                 /\ ~(char = "\"" /\ ~s.in_single_quote)
                 /\ s.in_double_quote /\ char = "\\" /\ s.j + 1 < Len(line)
              THEN {s.j + 1} ELSE {})

\* after the while loop: rstrip, append, and the next turn of the for loop
ShellLineEnd(s) ==
    LET done == [s EXCEPT !.cleaned_lines = Append(@, RStrip(s.cleaned_line)),
                          !.cleaned_line = RStrip(@),
                          !.broke = FALSE]
    IN  IF s.i + 1 < Len(s.lines)
        THEN ShellLineStart([done EXCEPT !.i = @ + 1])
        ELSE done

ShellResult(s) ==
    [text |-> Join(s.cleaned_lines), count |-> s.comments_removed]

---------------------------------------------------------------------------
(* remove_comments_from_c_like *)

CLikeEntry ==
    [i |-> 0, out_chars |-> <<>>, comments_removed |-> 0,
     in_single |-> FALSE, in_double |-> FALSE, in_backtick |-> FALSE,
     in_line_comment |-> FALSE, in_block_comment |-> FALSE]

\* nxt: content[i+1] if i + 1 < n, else the empty string
CLikeNxt(text, i) == IF i + 1 < Len(text) THEN Get(text, i + 1) ELSE ""

\* variant: the newline that ends the comment is dropped with it
CLikeInLineCommentEatNewline(text, s) ==
    LET ch == Get(text, s.i)
    IN  IF ch = "\n"
        THEN [s EXCEPT !.in_line_comment = FALSE, !.i = @ + 1]
        ELSE [s EXCEPT !.i = @ + 1]

CLikeInLineComment(text, s) ==
    LET ch == Get(text, s.i)
    IN  IF ch = "\n"
        THEN [s EXCEPT !.in_line_comment = FALSE,
                       !.out_chars = Append(@, ch),
                       !.i = @ + 1]
        ELSE [s EXCEPT !.i = @ + 1]

\* variant: the "*" of the opening delimiter may also start the closing one
CLikeInBlockCommentOverlap(text, s) ==
    LET ch == Get(text, s.i)
        nxt == CLikeNxt(text, s.i)
    IN  IF ch = "*" /\ nxt = "/"
        THEN [s EXCEPT !.in_block_comment = FALSE, !.i = @ + 2]
        ELSE IF ch = "/" /\ s.i > 0 /\ Get(text, s.i - 1) = "*"
        THEN [s EXCEPT !.in_block_comment = FALSE, !.i = @ + 1]
        ELSE [s EXCEPT !.i = @ + 1]

\* variant: a "/*" inside a block comment is counted as a comment
CLikeInBlockCommentCountNested(text, s) ==
    LET ch == Get(text, s.i)
        nxt == CLikeNxt(text, s.i)
    IN  IF ch = "*" /\ nxt = "/"
        THEN [s EXCEPT !.in_block_comment = FALSE, !.i = @ + 2]
        ELSE IF ch = "/" /\ nxt = "*"
        THEN [s EXCEPT !.comments_removed = @ + 1, !.i = @ + 1]
        ELSE [s EXCEPT !.i = @ + 1]

\* variant: a newline ends the block comment as it ends a line comment
CLikeInBlockCommentOneLine(text, s) ==
    LET ch == Get(text, s.i)
        nxt == CLikeNxt(text, s.i)
    IN  IF ch = "*" /\ nxt = "/"
        THEN [s EXCEPT !.in_block_comment = FALSE, !.i = @ + 2]
        ELSE IF ch = "\n"
        THEN [s EXCEPT !.in_block_comment = FALSE,
                       !.out_chars = Append(@, ch),
                       !.i = @ + 1]
        ELSE [s EXCEPT !.i = @ + 1]

CLikeInBlockComment(text, s) ==
    LET ch == Get(text, s.i)
        nxt == CLikeNxt(text, s.i)
    IN  IF ch = "*" /\ nxt = "/"
        THEN [s EXCEPT !.in_block_comment = FALSE, !.i = @ + 2]
        ELSE [s EXCEPT !.i = @ + 1]

\* variant: a backslash always takes the next position with it
CLikeInSingleUnguarded(text, s) ==
    LET ch == Get(text, s.i)
    IN  IF ch = "\\"
        THEN [s EXCEPT !.out_chars =
                           IF s.i + 1 < Len(text)
                           THEN @ \o <<ch, Get(text, s.i + 1)>>
                           ELSE Append(@, ch),
                       !.i = @ + 2]
        ELSE IF ch = "'"
        THEN [s EXCEPT !.out_chars = Append(@, ch),
                       !.in_single = FALSE,
                       !.i = @ + 1]
        ELSE [s EXCEPT !.out_chars = Append(@, ch), !.i = @ + 1]

CLikeInSingle(text, s) ==
    LET ch == Get(text, s.i)
    IN  IF ch = "\\"
        THEN IF s.i + 1 < Len(text)
             THEN [s EXCEPT !.out_chars = @ \o <<ch, Get(text, s.i + 1)>>,
                            !.i = @ + 2]
             ELSE [s EXCEPT !.out_chars = Append(@, ch), !.i = @ + 1]
        ELSE IF ch = "'"
        THEN [s EXCEPT !.out_chars = Append(@, ch),
                       !.in_single = FALSE,
                       !.i = @ + 1]
        ELSE [s EXCEPT !.out_chars = Append(@, ch), !.i = @ + 1]

\* variant: a backslash is copied like any other character
CLikeInDoubleNoEscape(text, s) ==
    LET ch == Get(text, s.i)
    IN  IF ch = "\""
        THEN [s EXCEPT !.out_chars = Append(@, ch),
                       !.in_double = FALSE,
                       !.i = @ + 1]
        ELSE [s EXCEPT !.out_chars = Append(@, ch), !.i = @ + 1]

CLikeInDouble(text, s) ==
    LET ch == Get(text, s.i)
    IN  IF ch = "\\"
        THEN IF s.i + 1 < Len(text)
             THEN [s EXCEPT !.out_chars = @ \o <<ch, Get(text, s.i + 1)>>,
                            !.i = @ + 2]
             ELSE [s EXCEPT !.out_chars = Append(@, ch), !.i = @ + 1]
        ELSE IF ch = "\""
        THEN [s EXCEPT !.out_chars = Append(@, ch),
                       !.in_double = FALSE,
                       !.i = @ + 1]
        ELSE [s EXCEPT !.out_chars = Append(@, ch), !.i = @ + 1]

\* variant: a backslash escapes any character, as in the quoted literals
CLikeInBacktickAnyEscape(text, s) ==
    LET ch == Get(text, s.i)
    IN  IF ch = "\\" /\ s.i + 1 < Len(text)
        THEN [s EXCEPT !.out_chars = @ \o <<ch, Get(text, s.i + 1)>>,
                       !.i = @ + 2]
        ELSE IF ch = BackTick
        THEN [s EXCEPT !.out_chars = Append(@, ch),
                       !.in_backtick = FALSE,
                       !.i = @ + 1]
        ELSE [s EXCEPT !.out_chars = Append(@, ch), !.i = @ + 1]

CLikeInBacktick(text, s) ==
    LET ch == Get(text, s.i)
    IN  IF ch = "\\" /\ s.i + 1 < Len(text) /\ Get(text, s.i + 1) = BackTick
        THEN [s EXCEPT !.out_chars = @ \o <<ch, BackTick>>, !.i = @ + 2]
        ELSE IF ch = BackTick
        THEN [s EXCEPT !.out_chars = Append(@, ch),
                       !.in_backtick = FALSE,
                       !.i = @ + 1]
        ELSE [s EXCEPT !.out_chars = Append(@, ch), !.i = @ + 1]

\* variant: "/*" opens a comment only when a "*/" follows somewhere
CLikeNormalNeedsClose(text, s) ==
    LET ch == Get(text, s.i)
        nxt == CLikeNxt(text, s.i)
        closed == \E k \in (s.i + 2)..(Len(text) - 2) :
                      Get(text, k) = "*" /\ Get(text, k + 1) = "/"
    IN  IF ch = "/" /\ nxt = "/"
        THEN [s EXCEPT !.in_line_comment = TRUE,
                       !.comments_removed = @ + 1,
                       !.i = @ + 2]
        ELSE IF ch = "/" /\ nxt = "*" /\ closed
        THEN [s EXCEPT !.in_block_comment = TRUE,
                       !.comments_removed = @ + 1,
                       !.i = @ + 2]
        ELSE IF ch = "'"
        THEN [s EXCEPT !.in_single = TRUE,
                       !.out_chars = Append(@, ch),
                       !.i = @ + 1]
        ELSE IF ch = "\""
        THEN [s EXCEPT !.in_double = TRUE,
                       !.out_chars = Append(@, ch),
                       !.i = @ + 1]
        ELSE IF ch = BackTick
        THEN [s EXCEPT !.in_backtick = TRUE,
                       !.out_chars = Append(@, ch),
                       !.i = @ + 1]
        ELSE [s EXCEPT !.out_chars = Append(@, ch), !.i = @ + 1]

\* no flag set: comment openers first, then literal openers, then copy
CLikeNormal(text, s) ==
    LET ch == Get(text, s.i)
        nxt == CLikeNxt(text, s.i)
    IN  IF ch = "/" /\ nxt = "/"
        THEN [s EXCEPT !.in_line_comment = TRUE,
                       !.comments_removed = @ + 1,
                       !.i = @ + 2]
        ELSE IF ch = "/" /\ nxt = "*"
        THEN [s EXCEPT !.in_block_comment = TRUE,
                       !.comments_removed = @ + 1,
                       !.i = @ + 2]
        ELSE IF ch = "'"
        THEN [s EXCEPT !.in_single = TRUE,
                       !.out_chars = Append(@, ch),
                       !.i = @ + 1]
        ELSE IF ch = "\""
        THEN [s EXCEPT !.in_double = TRUE,
                       !.out_chars = Append(@, ch),
                       !.i = @ + 1]
        ELSE IF ch = BackTick
        THEN [s EXCEPT !.in_backtick = TRUE,
                       !.out_chars = Append(@, ch),
                       !.i = @ + 1]
        ELSE [s EXCEPT !.out_chars = Append(@, ch), !.i = @ + 1]

\* variant: comment openers are tested before the literal flags
CLikeStepCommentFirst(text, s) ==
    IF s.in_line_comment THEN CLikeInLineComment(text, s)
    ELSE IF s.in_block_comment THEN CLikeInBlockComment(text, s)
    ELSE IF Get(text, s.i) = "/" /\ CLikeNxt(text, s.i) \in {"/", "*"}
    THEN CLikeNormal(text, s)
    ELSE IF s.in_single THEN CLikeInSingle(text, s)
    ELSE IF s.in_double THEN CLikeInDouble(text, s)
    ELSE IF s.in_backtick THEN CLikeInBacktick(text, s)
    ELSE CLikeNormal(text, s)

\* one iteration of the while loop
CLikeStep(text, s) ==
    IF s.in_line_comment THEN CLikeInLineComment(text, s)
    ELSE IF s.in_block_comment THEN CLikeInBlockComment(text, s)
    ELSE IF s.in_single THEN CLikeInSingle(text, s)
    ELSE IF s.in_double THEN CLikeInDouble(text, s)
    ELSE IF s.in_backtick THEN CLikeInBacktick(text, s)
    ELSE CLikeNormal(text, s)

\* the positions of the text that one iteration reads
CLikeReads(text, s) ==
    LET ch == Get(text, s.i)
    IN  {s.i}
        \cup (IF s.i + 1 < Len(text) THEN {s.i + 1} ELSE {})
        \cup (IF ~s.in_line_comment /\ ~s.in_block_comment
                 /\ (s.in_single \/ s.in_double)
                 /\ ch = "\\" /\ s.i + 1 < Len(text)
              THEN {s.i + 1} ELSE {})

CLikeResult(s) == [text |-> s.out_chars, count |-> s.comments_removed]

---------------------------------------------------------------------------
(* The scanners run to completion, as process_file calls them *)

\* the values the locals of remove_comments_from_shell take
ShellLocals ==
    [lines : Seq(Seq(STRING)), cleaned_lines : Seq(Seq(STRING)),
     comments_removed : Nat, i : Nat, j : Nat, cleaned_line : Seq(STRING),
     in_single_quote : BOOLEAN, in_double_quote : BOOLEAN,
     broke : BOOLEAN]

\* the for loop and the while loop of remove_comments_from_shell, from s on
ShellRun(s0, preserve) ==
    LET run[s \in ShellLocals] ==
            IF ~s.broke /\ s.j < Len(ShellLine(s))
            THEN run[ShellStep(s, preserve)]
            ELSE IF s.i + 1 < Len(s.lines)
            THEN run[ShellLineEnd(s)]
            ELSE ShellResult(ShellLineEnd(s))
    IN  run[s0]

remove_comments_from_shell(text, preserve) ==
    ShellRun(ShellEntry(text), preserve)

\* the values the locals of remove_comments_from_c_like take
CLikeLocals ==
    [i : Nat, out_chars : Seq(STRING), comments_removed : Nat,
     in_single : BOOLEAN, in_double : BOOLEAN, in_backtick : BOOLEAN,
     in_line_comment : BOOLEAN, in_block_comment : BOOLEAN]

\* the while loop of remove_comments_from_c_like, from s on
CLikeRun(text, s0) ==
    LET run[s \in CLikeLocals] ==
            IF s.i < Len(text) THEN run[CLikeStep(text, s)]
            ELSE CLikeResult(s)
    IN  run[s0]

remove_comments_from_c_like(text) == CLikeRun(text, CLikeEntry)

---------------------------------------------------------------------------
(* process_file *)

\* how the open-for-writing and the write of one file end: "ok", "open"
\* (open raises, the file is as it was) or "write" (the file was truncated
\* by the open, the write raises after kept characters reached the file)
WriteOutcomes ==
    {[kind |-> "ok", kept |-> 0], [kind |-> "open", kept |-> 0],
     [kind |-> "write", kept |-> 0], [kind |-> "write", kept |-> 1]}

Prefix(s, n) == SubSeq(s, 1, IF n < Len(s) THEN n ELSE Len(s))

\* what process_file leaves when it returns before the dry-run test
NotModified(f, scanned, removed, cleaned) ==
    [ret |-> FALSE, disk |-> f.content, added |-> 0, scanned |-> scanned,
     removed |-> removed, cleaned |-> cleaned, wrote |-> "none",
     raises |-> FALSE]

\* variant: a failed read is not caught
process_file_uncaught_read(f, preserve, dry, w) ==
    IF ~f.readable
    THEN [NotModified(f, FALSE, 0, <<>>) EXCEPT !.raises = TRUE]
    ELSE IF f.lang \notin {"shell", "c_like"}
    THEN NotModified(f, FALSE, 0, <<>>)
    ELSE
    LET r == IF f.lang = "shell"
             THEN remove_comments_from_shell(f.content, preserve)
             ELSE remove_comments_from_c_like(f.content)
        o == NotModified(f, TRUE, r.count, r.text)
    IN  IF r.count = 0 THEN o
        ELSE IF dry THEN [o EXCEPT !.ret = TRUE]
        ELSE IF w.kind = "ok"
        THEN [o EXCEPT !.ret = TRUE, !.disk = r.text, !.added = r.count,
                       !.wrote = "ok"]
        ELSE IF w.kind = "open"
        THEN [o EXCEPT !.wrote = "open_failed"]
        ELSE [o EXCEPT !.disk = Prefix(r.text, w.kept),
                       !.wrote = "write_failed"]

\* process_file on the file f = [content, lang, readable]: the value it
\* returns (ret), the content of the file afterwards (disk), what it adds
\* to total_comments_removed (added), what the scan returned (removed,
\* cleaned), how the write ended (wrote), whether an exception leaves it
process_file(f, preserve, dry, w) ==
    IF ~f.readable THEN NotModified(f, FALSE, 0, <<>>)
    ELSE IF f.lang \notin {"shell", "c_like"}
    THEN NotModified(f, FALSE, 0, <<>>)
    ELSE
    LET r == IF f.lang = "shell"
             THEN remove_comments_from_shell(f.content, preserve)
             ELSE remove_comments_from_c_like(f.content)
        o == NotModified(f, TRUE, r.count, r.text)
    IN  IF r.count = 0 THEN o
        ELSE IF dry THEN [o EXCEPT !.ret = TRUE]
        ELSE IF w.kind = "ok"
        THEN [o EXCEPT !.ret = TRUE, !.disk = r.text, !.added = r.count,
                       !.wrote = "ok"]
        ELSE IF w.kind = "open"
        THEN [o EXCEPT !.wrote = "open_failed"]
        ELSE [o EXCEPT !.disk = Prefix(r.text, w.kept),
                       !.wrote = "write_failed"]

---------------------------------------------------------------------------
(* remove_empty_directories *)

excluded_dirs ==
    {"vendor", ".git", ".vscode", "__pycache__", "node_modules", "dist",
     "build"}

\* the directories under the root, each the sequence of its path parts
Dirs == {<<"a">>, <<"a", "b">>, <<"vendor">>, <<"vendor", "x">>}

\* the order in which os.walk(topdown=False) hands them to the inner loop
Walk == <<<<"a", "b">>, <<"vendor", "x">>, <<"a">>, <<"vendor">>>>

Children(p) ==
    {q \in Dirs : Len(q) = Len(p) + 1 /\ SubSeq(q, 1, Len(p)) = p}

\* not os.listdir(dir_path)
ListDirEmpty(t, p) ==
    t[p].files = 0 /\ \A q \in Children(p) : ~t[q].exists

\* variant: dry_run is not looked at
RemoveIfEmptyAlways(t, p, dry, rmdir_ok) ==
    IF p[Len(p)] \in excluded_dirs THEN [tree |-> t, removed |-> 0]
    ELSE IF \E k \in 1..Len(p) : p[k] \in excluded_dirs
    THEN [tree |-> t, removed |-> 0]
    ELSE IF t[p].exists /\ ListDirEmpty(t, p)
    THEN IF rmdir_ok
         THEN [tree |-> [t EXCEPT ![p].exists = FALSE], removed |-> 1]
         ELSE [tree |-> t, removed |-> 0]
    ELSE [tree |-> t, removed |-> 0]

\* the body of the inner loop for the directory p; rmdir_ok tells whether
\* os.rmdir succeeds or raises OSError
RemoveIfEmpty(t, p, dry, rmdir_ok) ==
    IF p[Len(p)] \in excluded_dirs THEN [tree |-> t, removed |-> 0]
    ELSE IF \E k \in 1..Len(p) : p[k] \in excluded_dirs
    THEN [tree |-> t, removed |-> 0]
    ELSE IF t[p].exists /\ ListDirEmpty(t, p)
    THEN IF dry THEN [tree |-> t, removed |-> 1]
         ELSE IF rmdir_ok
         THEN [tree |-> [t EXCEPT ![p].exists = FALSE], removed |-> 1]
         ELSE [tree |-> t, removed |-> 0]
    ELSE [tree |-> t, removed |-> 0]

---------------------------------------------------------------------------
(* The state machine *)

\* the directory variables while a single scan is followed
DirIdle ==
    /\ is_dir = FALSE
    /\ dry_run = FALSE
    /\ remove_empty_dirs = FALSE
    /\ targets = <<>>
    /\ disk = <<>>
    /\ tree = <<>>
    /\ dpc = "idle"
    /\ log = <<>>
    /\ processed_files = 0
    /\ total_comments_removed = 0
    /\ modified_files = 0
    /\ summary = <<>>
    /\ d = 0
    /\ removed_count = 0

\* the scanner variables while process_directory is followed
ScanIdle ==
    /\ lang = "shell"
    /\ content = <<>>
    /\ pass = 1
    /\ pc = "idle"
    /\ sh = ShellEntry(<<>>)
    /\ cl = CLikeEntry
    /\ results = <<>>
    /\ raised = FALSE

Init ==
    /\ DirIdle
    /\ lang \in {"shell", "c_like"}
    /\ preserve_shebang \in BOOLEAN
    /\ content \in (IF lang = "shell" THEN ShellInputs ELSE CLikeInputs)
    /\ pass = 1
    /\ pc = "while"
    /\ sh = ShellEntry(IF lang = "shell" THEN content ELSE <<>>)
    /\ cl = CLikeEntry
    /\ results = <<>>
    /\ raised = FALSE

\* while j < len(line): one iteration
ShellIter ==
    /\ lang = "shell" /\ pc = "while"
    /\ sh.j < Len(ShellLine(sh))
    /\ sh' = ShellStep(sh, preserve_shebang)
    /\ pc' = IF sh'.broke THEN "eol" ELSE "while"
    /\ raised' = (raised \/ \E k \in ShellReads(sh) :
                                 k < 0 \/ k >= Len(ShellLine(sh)))
    /\ UNCHANGED <<lang, preserve_shebang, content, pass, cl, results>>
    /\ UNCHANGED dirvars

\* the while loop is left: finish the line, go to the next one
ShellEndLine ==
    /\ lang = "shell"
    /\ pc = "eol" \/ (pc = "while" /\ sh.j >= Len(ShellLine(sh)))
    /\ sh' = ShellLineEnd(sh)
    /\ pc' = IF sh.i + 1 < Len(sh.lines) THEN "while" ELSE "join"
    /\ UNCHANGED <<lang, preserve_shebang, content, pass, cl, results, raised>>
    /\ UNCHANGED dirvars

ShellReturn ==
    /\ lang = "shell" /\ pc = "join"
    /\ results' = Append(results, ShellResult(sh))
    /\ pc' = "done"
    /\ UNCHANGED <<lang, preserve_shebang, content, pass, sh, cl, raised>>
    /\ UNCHANGED dirvars

\* while i < n: one iteration
CLikeIter ==
    /\ lang = "c_like" /\ pc = "while"
    /\ cl.i < Len(content)
    /\ cl' = CLikeStep(content, cl)
    /\ raised' = (raised \/ \E k \in CLikeReads(content, cl) :
                                 k < 0 \/ k >= Len(content))
    /\ UNCHANGED <<lang, preserve_shebang, content, pass, pc, sh, results>>
    /\ UNCHANGED dirvars

CLikeReturn ==
    /\ lang = "c_like" /\ pc = "while"
    /\ cl.i >= Len(content)
    /\ results' = Append(results, CLikeResult(cl))
    /\ pc' = "done"
    /\ UNCHANGED <<lang, preserve_shebang, content, pass, sh, cl, raised>>
    /\ UNCHANGED dirvars

\* the cleaned text is handed to the same scanner again
Rescan ==
    /\ pc = "done" /\ pass = 1
    /\ content' = results[1].text
    /\ pass' = 2
    /\ pc' = "while"
    /\ sh' = ShellEntry(IF lang = "shell" THEN results[1].text ELSE <<>>)
    /\ cl' = CLikeEntry
    /\ UNCHANGED <<lang, preserve_shebang, results, raised>>
    /\ UNCHANGED dirvars

Next ==
    \/ ShellIter
    \/ ShellEndLine
    \/ ShellReturn
    \/ CLikeIter
    \/ CLikeReturn
    \/ Rescan

Spec == Init /\ [][Next]_vars

FairSpec == Spec /\ WF_vars(Next)

TypeOK ==
    /\ lang \in {"shell", "c_like"}
    /\ preserve_shebang \in BOOLEAN
    /\ pass \in {1, 2}
    /\ pc \in {"while", "eol", "join", "done"}
    /\ raised \in BOOLEAN
    /\ Len(results) = (IF pc = "done" THEN pass ELSE pass - 1)

---------------------------------------------------------------------------
(* process_directory *)

\* the files a directory may hold: a shell file with a comment, one with
\* trailing blanks only, a clean one, a C-like file with a comment, a clean
\* one; each readable or not
FileKinds ==
    {[content |-> <<"a", " ", "#", "c">>, lang |-> "shell"],
     [content |-> <<"a", " ">>, lang |-> "shell"],
     [content |-> <<"a">>, lang |-> "shell"],
     [content |-> <<"a", "/", "/", "c">>, lang |-> "c_like"],
     [content |-> <<"a">>, lang |-> "c_like"]}

Files ==
    {[content |-> f.content, lang |-> f.lang, readable |-> r] :
        f \in FileKinds, r \in BOOLEAN}

TargetLists == UNION {[1..n -> Files] : n \in 0..MaxFiles}

\* all four directories exist; a and a/b hold a file or not
Trees ==
    {[p \in Dirs |->
        [exists |-> TRUE,
         files |-> IF p = <<"a">> THEN fa
                   ELSE IF p = <<"a", "b">> THEN fb ELSE 0]] :
        fa \in {0, 1}, fb \in {0, 1}}

DirInit ==
    /\ ScanIdle
    /\ preserve_shebang \in BOOLEAN
    /\ is_dir \in BOOLEAN
    /\ dry_run \in BOOLEAN
    /\ remove_empty_dirs \in BOOLEAN
    /\ targets \in (IF is_dir THEN TargetLists ELSE {<<>>})
    /\ disk = [k \in 1..Len(targets) |-> targets[k].content]
    /\ tree \in Trees
    /\ dpc = "start"
    /\ log = <<>>
    /\ processed_files = 0
    /\ total_comments_removed = 0
    /\ modified_files = 0
    /\ summary = <<>>
    /\ d = 0
    /\ removed_count = 0

\* if not os.path.isdir(directory): return
NotADirectory ==
    /\ dpc = "start" /\ ~is_dir
    /\ dpc' = "done"
    /\ UNCHANGED <<preserve_shebang, scanvars, is_dir, dry_run,
                   remove_empty_dirs, targets, disk, tree, log,
                   processed_files, total_comments_removed, modified_files,
                   summary, d, removed_count>>

\* if not targets: return
NoTargets ==
    /\ dpc = "start" /\ is_dir /\ targets = <<>>
    /\ dpc' = "done"
    /\ UNCHANGED <<preserve_shebang, scanvars, is_dir, dry_run,
                   remove_empty_dirs, targets, disk, tree, log,
                   processed_files, total_comments_removed, modified_files,
                   summary, d, removed_count>>

\* modified_files = 0, the for loop is entered
StartLoop ==
    /\ dpc = "start" /\ is_dir /\ targets # <<>>
    /\ modified_files' = 0
    /\ dpc' = "loop"
    /\ UNCHANGED <<preserve_shebang, scanvars, is_dir, dry_run,
                   remove_empty_dirs, targets, disk, tree, log,
                   processed_files, total_comments_removed, summary, d,
                   removed_count>>

\* one iteration of the for loop: process_file on the next target, then
\* the two counters
ProcessFile ==
    /\ dpc = "loop" /\ Len(log) < Len(targets)
    /\ \E w \in WriteOutcomes :
        LET k == Len(log) + 1
            f == [content |-> disk[k], lang |-> targets[k].lang,
                  readable |-> targets[k].readable]
            o == process_file(f, preserve_shebang, dry_run, w)
        IN  /\ log' = Append(log, o)
            /\ disk' = [disk EXCEPT ![k] = o.disk]
            /\ total_comments_removed' = total_comments_removed + o.added
            /\ IF o.raises
               THEN /\ dpc' = "aborted"
                    /\ UNCHANGED <<modified_files, processed_files>>
               ELSE /\ dpc' = dpc
                    /\ modified_files' =
                           modified_files + (IF o.ret THEN 1 ELSE 0)
                    /\ processed_files' = processed_files + 1
    /\ UNCHANGED <<preserve_shebang, scanvars, is_dir, dry_run,
                   remove_empty_dirs, targets, tree, summary, d,
                   removed_count>>

\* the loop is over: the summary is printed
Summary ==
    /\ dpc = "loop" /\ Len(log) = Len(targets)
    /\ summary' = <<processed_files, modified_files>>
                     \o (IF dry_run THEN <<>>
                         ELSE <<total_comments_removed>>)
    /\ dpc' = IF remove_empty_dirs THEN "dirs" ELSE "done"
    /\ d' = 0
    /\ removed_count' = 0
    /\ UNCHANGED <<preserve_shebang, scanvars, is_dir, dry_run,
                   remove_empty_dirs, targets, disk, tree, log,
                   processed_files, total_comments_removed, modified_files>>

\* remove_empty_directories: the inner loop body for the next directory
VisitDir ==
    /\ dpc = "dirs" /\ d < Len(Walk)
    /\ \E rmdir_ok \in BOOLEAN :
        LET v == RemoveIfEmpty(tree, Walk[d + 1], dry_run, rmdir_ok)
        IN  /\ tree' = v.tree
            /\ removed_count' = removed_count + v.removed
    /\ d' = d + 1
    /\ UNCHANGED <<preserve_shebang, scanvars, is_dir, dry_run,
                   remove_empty_dirs, targets, disk, dpc, log,
                   processed_files, total_comments_removed, modified_files,
                   summary>>

\* remove_empty_directories returns, its count is printed
DirsReturn ==
    /\ dpc = "dirs" /\ d = Len(Walk)
    /\ summary' = Append(summary, removed_count)
    /\ dpc' = "done"
    /\ UNCHANGED <<preserve_shebang, scanvars, is_dir, dry_run,
                   remove_empty_dirs, targets, disk, tree, log,
                   processed_files, total_comments_removed, modified_files,
                   d, removed_count>>

DirNext ==
    \/ NotADirectory
    \/ NoTargets
    \/ StartLoop
    \/ ProcessFile
    \/ Summary
    \/ VisitDir
    \/ DirsReturn

DirSpec == DirInit /\ [][DirNext]_vars

DirFairSpec == DirSpec /\ WF_vars(DirNext)

DirTypeOK ==
    /\ dpc \in {"start", "loop", "dirs", "done", "aborted"}
    /\ Len(log) <= Len(targets)
    /\ Len(disk) = Len(targets)
    /\ processed_files \in 0..Len(targets)
    /\ modified_files \in 0..processed_files
    /\ d \in 0..Len(Walk)
    /\ removed_count \in 0..d

---------------------------------------------------------------------------
(* Properties *)

\* the scan of `content` has returned; Last is what it returned
Returned == pc = "done"

Last == results[Len(results)]

Range(s) == {s[k] : k \in 1..Len(s)}

\* --- literals, by the grammar of each language family ---

Quotes(l) == IF l = "shell" THEN {"'", "\""} ELSE {"'", "\"", BackTick}

\* does the backslash at position k (1-based) escape the next character
\* of a literal delimited by q
BackslashEscapes(l, q, text, k) ==
    IF l = "shell" THEN q = "\""
    ELSE IF q = BackTick THEN k + 1 <= Len(text) /\ text[k + 1] = BackTick
    ELSE TRUE

\* position of the first unescaped q at or after k, 0 when there is none
RECURSIVE LiteralEnd(_, _, _, _)
LiteralEnd(l, text, q, k) ==
    IF k > Len(text) THEN 0
    ELSE IF text[k] = "\\" /\ BackslashEscapes(l, q, text, k)
    THEN LiteralEnd(l, text, q, k + 2)
    ELSE IF text[k] = q THEN k
    ELSE LiteralEnd(l, text, q, k + 1)

IsLiteral(l, text) ==
    /\ Len(text) >= 2
    /\ text[1] \in Quotes(l)
    /\ LiteralEnd(l, text, text[1], 2) = Len(text)

HasMarkerInside(l, text) ==
    \E k \in 2..(Len(text) - 1) :
        IF l = "shell" THEN text[k] = "#"
        ELSE text[k] = "/" /\ k + 1 < Len(text) /\ text[k + 1] \in {"/", "*"}

CommentBearingLiteral(l, text) ==
    /\ IsLiteral(l, text)
    /\ "\n" \notin Range(text)
    /\ HasMarkerInside(l, text)

\* C1 (literal preservation): when the scanned text is exactly one
\* single-line string literal holding a comment marker, either scanner
\* returns the text unchanged and a count of 0.
C1_LiteralPreservation ==
    (Returned /\ CommentBearingLiteral(lang, content))
        => Last = [text |-> content, count |-> 0]

C1_Witness ==
    /\ Returned /\ pass = 1 /\ lang = "c_like"
    /\ content = <<BackTick, "/", "*", BackTick>>
    /\ CommentBearingLiteral(lang, content)
    /\ Last = [text |-> content, count |-> 0]

\* C2 (idempotence): the scan of the text returned by a first scan reports
\* zero comments removed, for either family and either preserve setting.
C2_Idempotence ==
    Len(results) = 2 => results[2].count = 0

C2_Witness ==
    /\ Len(results) = 2
    /\ results[1].count > 0
    /\ results[1].text # <<>>
    /\ results[2] = [text |-> results[1].text, count |-> 0]

\* C3 (build-tag preservation): with preservation enabled the C-like scan
\* of "//go:build linux\npackage main" leaves the first line untouched and
\* reports zero comments removed.
C3_BuildTagPreserved ==
    (Returned /\ pass = 1 /\ lang = "c_like" /\ preserve_shebang
        /\ content = BuildTagInput)
        => /\ Last.count = 0
           /\ Split(Last.text)[1] = Split(BuildTagInput)[1]

\* C4 as stated (shebang preservation): with preservation enabled the shell
\* scan of "#!/bin/sh\n# regular comment\necho hi" returns
\* "#!/bin/sh\necho hi" and a count of 1.
C4_Original ==
    (Returned /\ pass = 1 /\ lang = "shell" /\ preserve_shebang
        /\ content = ShebangInput)
        => Last = [text |-> ShebangClaimed, count |-> 1]

\* C4 as amended: the same scan returns "#!/bin/sh\n\necho hi" and a count
\* of 1: the shebang line is kept verbatim, the comment-only line becomes
\* an empty line and keeps its line terminator.
C4_ShebangPreservation ==
    (Returned /\ pass = 1 /\ lang = "shell" /\ preserve_shebang
        /\ content = ShebangInput)
        => Last = [text |-> ShebangCleaned, count |-> 1]

C4_Witness ==
    /\ Returned /\ pass = 1 /\ lang = "shell" /\ preserve_shebang
    /\ content = ShebangInput
    /\ Split(Last.text)[1] = Split(ShebangInput)[1]
    /\ Last.count = 1

\* C5 (shell output fidelity): a line on which no comment was dropped (all
\* of it was copied to cleaned_line) is appended to the output identical
\* to the input line, trailing whitespace included.
C5_ShellFidelity ==
    [][(ShellEndLine /\ sh.cleaned_line = ShellLine(sh))
          => sh'.cleaned_lines = Append(sh.cleaned_lines, ShellLine(sh))]_vars

\* --- the C-like comment grammar, token by token ---

\* position of the first occurrence of <<c1, c2>> at or after k, 0 if none
RECURSIVE FindPair(_, _, _, _)
FindPair(text, c1, c2, k) ==
    IF k + 1 > Len(text) THEN 0
    ELSE IF text[k] = c1 /\ text[k + 1] = c2 THEN k
    ELSE FindPair(text, c1, c2, k + 1)

\* position of the first c at or after k, 0 if none
RECURSIVE FindChar(_, _, _)
FindChar(text, c, k) ==
    IF k > Len(text) THEN 0
    ELSE IF text[k] = c THEN k
    ELSE FindChar(text, c, k + 1)

\* the text from position k on (k outside any literal or comment) with its
\* comments deleted: a line comment runs up to, not including, the next
\* newline; a block comment runs through the next "*/"; a literal runs
\* through its closing quote; each runs to the end of the text when its end
\* is missing
RECURSIVE Uncommented(_, _)
Uncommented(text, k) ==
    IF k > Len(text) THEN <<>>
    ELSE IF text[k] = "/" /\ k + 1 <= Len(text) /\ text[k + 1] = "/"
    THEN LET e == FindChar(text, "\n", k + 2)
         IN  IF e = 0 THEN <<>> ELSE Uncommented(text, e)
    ELSE IF text[k] = "/" /\ k + 1 <= Len(text) /\ text[k + 1] = "*"
    THEN LET e == FindPair(text, "*", "/", k + 2)
         IN  IF e = 0 THEN <<>> ELSE Uncommented(text, e + 2)
    ELSE IF text[k] \in Quotes("c_like")
    THEN LET e == LiteralEnd("c_like", text, text[k], k + 1)
         IN  IF e = 0 THEN SubSeq(text, k, Len(text))
             ELSE SubSeq(text, k, e) \o Uncommented(text, e + 1)
    ELSE <<text[k]>> \o Uncommented(text, k + 1)

\* C6 (C-like output fidelity): the C-like scanner returns the input with
\* exactly its comment characters deleted: every character outside a
\* comment once and in order, no character of a line comment before its
\* newline, no character of a block comment through its "*/", and the
\* newline that ends a line comment.
C6_CLikeFidelity ==
    (Returned /\ lang = "c_like") => Last.text = Uncommented(content, 1)

C6_Witness ==
    /\ Returned /\ pass = 1 /\ lang = "c_like"
    /\ content = <<"a", "/", "/", "\n">>
    /\ Last.text = <<"a", "\n">>

\* --- positions and modes of the running scan ---

Index == IF lang = "shell" THEN sh.j ELSE cl.i

Emitted == IF lang = "shell" THEN sh.cleaned_line ELSE cl.out_chars

Unquoted ==
    IF lang = "shell"
    THEN ~sh.in_single_quote /\ ~sh.in_double_quote
    ELSE ~cl.in_single /\ ~cl.in_double /\ ~cl.in_backtick
         /\ ~cl.in_line_comment /\ ~cl.in_block_comment

InDoubleQuote ==
    IF lang = "shell"
    THEN sh.in_double_quote /\ ~sh.in_single_quote
    ELSE cl.in_double /\ ~cl.in_single /\ ~cl.in_backtick
         /\ ~cl.in_line_comment /\ ~cl.in_block_comment

\* the scan is between two iterations over the first line of the text
ScanningFirstLine ==
    pc = "while" /\ (lang = "shell" => sh.i = 0)

\* lit is a double-quoted literal on one line whose only quote and only
\* backslash inside are one escaped quote
IsEscapedQuoteLiteral(lit) ==
    /\ Len(lit) >= 4
    /\ lit[1] = "\"" /\ lit[Len(lit)] = "\""
    /\ \E m \in 2..(Len(lit) - 2) :
          /\ lit[m] = "\\" /\ lit[m + 1] = "\""
          /\ \A k \in 2..(Len(lit) - 1) :
                k \notin {m, m + 1} => lit[k] \notin {"\"", "\\", "\n"}

\* a comment starts at position q and nothing ends it before the text ends
CommentToEnd(l, text, q) ==
    /\ FindChar(text, "\n", 1) = 0
    /\ IF l = "shell" THEN text[q] = "#"
       ELSE /\ q + 1 <= Len(text) /\ text[q] = "/"
            /\ text[q + 1] \in {"/", "*"}
            /\ text[q + 1] = "*" => FindPair(text, "*", "/", q + 2) = 0

\* C7 (escaped-quote correctness): in both scanners a double-quoted literal
\* holding an escaped quote is one literal: the scanner stays in
\* double-quote mode up to its final quote, emits all of it, is unquoted
\* right after the final quote, removes a comment that follows the literal
\* (unless the shell filter keeps it) and takes no comment marker inside
\* the literal for a comment.
C7_EscapedQuote ==
    \A p \in 4..Len(content) :
        IsEscapedQuoteLiteral(SubSeq(content, 1, p)) =>
            /\ (ScanningFirstLine /\ Index \in 1..(p - 1)) => InDoubleQuote
            /\ (ScanningFirstLine /\ Index = p) =>
                   (Unquoted /\ Emitted = SubSeq(content, 1, p))
            /\ (Returned /\ p = Len(content)) =>
                   Last = [text |-> content, count |-> 0]
            /\ \A q \in (p + 1)..Len(content) :
                   (/\ Returned
                    /\ \A k \in (p + 1)..(q - 1) : content[k] = " "
                    /\ CommentToEnd(lang, content, q)
                    /\ ~(lang = "shell"
                           /\ should_preserve_comment(preserve_shebang,
                                  Slice(content, q - 1), 0)))
                   => Last = [text |-> IF lang = "shell"
                                       THEN SubSeq(content, 1, p)
                                       ELSE SubSeq(content, 1, q - 1),
                              count |-> 1]

C7_Witness ==
    /\ Returned /\ pass = 1 /\ lang = "shell"
    /\ content = EscapedQuoteLiteral \o <<" ", "#", "c">>
    /\ Last = [text |-> EscapedQuoteLiteral, count |-> 1]

\* no character that opens a comment or a literal
Plain(text) == Range(text) \cap ({"/"} \cup Quotes("c_like")) = {}

\* C8 (cross-line block comments): in the C-like scanner, for a text made
\* of plain code, one block comment (newlines allowed inside) and plain
\* code, the scanner is in block-comment mode at every position between
\* "/*" and the next "*/", has emitted nothing of it, has counted once, and
\* returns the two pieces of code joined with a count of 1;
\* "code1 /* line1\nline2 */ code2" yields "code1  code2" and 1.
C8_CrossLineBlock ==
    lang = "c_like" =>
        \A a \in 1..Len(content), b \in 1..Len(content) :
            (/\ a + 2 <= b /\ b + 1 <= Len(content)
             /\ content[a] = "/" /\ content[a + 1] = "*"
             /\ FindPair(content, "*", "/", a + 2) = b
             /\ Plain(SubSeq(content, 1, a - 1))
             /\ Plain(SubSeq(content, b + 2, Len(content))))
            => /\ (pc = "while" /\ cl.i \in (a + 1)..(b - 1)) =>
                      /\ cl.in_block_comment
                      /\ cl.out_chars = SubSeq(content, 1, a - 1)
                      /\ cl.comments_removed = 1
               /\ Returned =>
                      Last = [text |-> SubSeq(content, 1, a - 1)
                                         \o SubSeq(content, b + 2, Len(content)),
                              count |-> 1]

C8_Witness ==
    /\ Returned /\ pass = 1 /\ lang = "c_like"
    /\ content = CrossLineInput
    /\ Last = [text |-> CrossLineCleaned, count |-> 1]

\* C9 (unterminated comments): in the C-like scanner, when plain code is
\* followed by "/*" with no "*/" after it, or by "//" with no newline after
\* it, the scan returns without raising, the result is the code before the
\* opening delimiter and the count is 1; "code /* never closes" yields
\* "code " and 1.
C9_Unterminated ==
    (Returned /\ lang = "c_like") =>
        \A a \in 1..(Len(content) - 1) :
            (/\ Plain(SubSeq(content, 1, a - 1))
             /\ content[a] = "/"
             /\ \/ /\ content[a + 1] = "*"
                   /\ FindPair(content, "*", "/", a + 2) = 0
                \/ /\ content[a + 1] = "/"
                   /\ FindChar(content, "\n", a + 2) = 0)
            => /\ Last = [text |-> SubSeq(content, 1, a - 1), count |-> 1]
               /\ ~raised

C9_Witness ==
    /\ Returned /\ pass = 1 /\ lang = "c_like"
    /\ content = UnterminatedInput
    /\ Last = [text |-> UnterminatedCleaned, count |-> 1]
    /\ cl.in_block_comment

\* what every loop iteration must keep: the index stays within the text
\* (or line) it scans, and no position outside it has been read
IterationInBounds ==
    /\ ShellIter => sh'.j <= Len(ShellLine(sh))
    /\ CLikeIter => cl'.i <= Len(content)
    /\ ~raised'

\* C10 as stated (scanner totality): every loop iteration of either scanner
\* advances the scan index by at least 1, the index never exceeds the
\* length of the buffer (or line), and nothing is read past the end.
C10_Original ==
    [][/\ IterationInBounds
       /\ ShellIter => sh'.j >= sh.j + 1
       /\ CLikeIter => cl'.i >= cl.i + 1]_vars

\* C10 as amended: every loop iteration of either scanner advances the
\* scan index by at least 1 or, in the shell scanner's "#" branch, leaves
\* the loop without advancing it; the index never exceeds the length of
\* the buffer (or line), nothing is read past the end, and every scan
\* returns.
C10_Totality ==
    /\ [][/\ IterationInBounds
          /\ ShellIter => (sh'.j >= sh.j + 1 \/ (sh'.j = sh.j /\ pc' = "eol"))
          /\ CLikeIter => cl'.i >= cl.i + 1]_vars
    /\ <>(Len(results) = 2)

C10_Witness ==
    /\ Returned /\ pass = 1 /\ lang = "c_like"
    /\ content = <<"/", "'", "\\">>
    /\ cl.in_single /\ cl.i = Len(content)
    /\ ~raised

\* the number of consecutive backslashes of the line that end at position k
RECURSIVE BackslashRun(_, _)
BackslashRun(line, k) ==
    IF k < 0 \/ Get(line, k) # "\\" THEN 0
    ELSE 1 + BackslashRun(line, k - 1)

\* C13 (shell backslash-run parity): a double quote met by the shell
\* scanner while in double-quote mode closes the quote exactly when the
\* number of backslashes immediately before it is even, and is kept as
\* content of the literal when that number is odd.
C13_BackslashParity ==
    [][(ShellIter /\ sh.in_double_quote /\ Get(ShellLine(sh), sh.j) = "\"")
          => (sh'.in_double_quote
                = (BackslashRun(ShellLine(sh), sh.j - 1) % 2 = 1))]_vars

\* --- C-like comments counted by the grammar ---

\* the number of comments of the text from position k on (k outside any
\* literal or comment)
RECURSIVE CommentCount(_, _)
CommentCount(text, k) ==
    IF k > Len(text) THEN 0
    ELSE IF text[k] = "/" /\ k + 1 <= Len(text) /\ text[k + 1] = "/"
    THEN LET e == FindChar(text, "\n", k + 2)
         IN  1 + (IF e = 0 THEN 0 ELSE CommentCount(text, e))
    ELSE IF text[k] = "/" /\ k + 1 <= Len(text) /\ text[k + 1] = "*"
    THEN LET e == FindPair(text, "*", "/", k + 2)
         IN  1 + (IF e = 0 THEN 0 ELSE CommentCount(text, e + 2))
    ELSE IF text[k] \in Quotes("c_like")
    THEN LET e == LiteralEnd("c_like", text, text[k], k + 1)
         IN  IF e = 0 THEN 0 ELSE CommentCount(text, e + 1)
    ELSE CommentCount(text, k + 1)

TrueCount(flags) == Cardinality({k \in 1..Len(flags) : flags[k]})

\* C14 (mutual exclusion of lexical contexts): at every scan position at
\* most one of the C-like flags in_single, in_double, in_backtick,
\* in_line_comment, in_block_comment is true, and at most one of the shell
\* flags in_single_quote, in_double_quote is true.
C14_MutualExclusion ==
    /\ TrueCount(<<cl.in_single, cl.in_double, cl.in_backtick,
                   cl.in_line_comment, cl.in_block_comment>>) <= 1
    /\ TrueCount(<<sh.in_single_quote, sh.in_double_quote>>) <= 1

C14_Witness ==
    /\ lang = "shell" /\ pass = 1 /\ pc = "while"
    /\ content = <<"'", "\"">>
    /\ sh.j = 2
    /\ sh.in_single_quote /\ ~sh.in_double_quote

\* the shell filter keeps the comment that starts at position j of line i
ShellKept(line, i, j) ==
    /\ preserve_shebang
    /\ i = 0
    /\ j + 1 < Len(line) /\ Get(line, j + 1) = "!"

\* C15 (comment counter): during a scan the counter changes only by +1,
\* exactly in the iteration that meets "//" or "/*" in Normal mode
\* (C-like) or an unquoted "#" whose comment the filter does not keep
\* (shell); no other step of the scan changes it, and the returned count
\* is the number of dropped comments: the comments of the text by the
\* C-like grammar, the lines that lost a comment in the shell scanner.
C15_CommentCounter ==
    /\ [][/\ CLikeIter =>
                cl'.comments_removed = cl.comments_removed +
                    (IF /\ Unquoted
                        /\ Get(content, cl.i) = "/"
                        /\ cl.i + 1 < Len(content)
                        /\ Get(content, cl.i + 1) \in {"/", "*"}
                     THEN 1 ELSE 0)
          /\ ShellIter =>
                sh'.comments_removed = sh.comments_removed +
                    (IF /\ Unquoted
                        /\ Get(ShellLine(sh), sh.j) = "#"
                        /\ ~ShellKept(ShellLine(sh), sh.i, sh.j)
                     THEN 1 ELSE 0)
          /\ (ShellEndLine \/ ShellReturn \/ CLikeReturn) =>
                /\ sh'.comments_removed = sh.comments_removed
                /\ cl'.comments_removed = cl.comments_removed]_vars
    /\ []((Returned /\ lang = "c_like") =>
              Last.count = CommentCount(content, 1))
    /\ []((Returned /\ lang = "shell") =>
              Last.count = Cardinality(
                  {k \in 1..Len(sh.lines) :
                       sh.cleaned_lines[k] # RStrip(sh.lines[k])}))

C15_Witness ==
    /\ Returned /\ pass = 1 /\ lang = "c_like"
    /\ content = <<"/", "*", "/", "/">>
    /\ Last.count = 1

\* C16 (shell privilege filter): an unquoted "#" comment met by the shell
\* scanner is kept (the rest of the line copied, counter unchanged) if and
\* only if preservation is enabled, the line index is 0 and the comment
\* starts with "#!"; otherwise it is dropped and counted.
C16_ShellFilter ==
    [][(ShellIter /\ Unquoted /\ Get(ShellLine(sh), sh.j) = "#") =>
           IF ShellKept(ShellLine(sh), sh.i, sh.j)
           THEN /\ sh'.cleaned_line =
                       sh.cleaned_line \o Slice(ShellLine(sh), sh.j)
                /\ sh'.comments_removed = sh.comments_removed
           ELSE /\ sh'.cleaned_line = sh.cleaned_line
                /\ sh'.comments_removed = sh.comments_removed + 1]_vars

C16_Witness ==
    /\ Returned /\ pass = 1 /\ lang = "shell" /\ preserve_shebang
    /\ content = <<"a", "\n", "#", "!">>
    /\ Last = [text |-> <<"a", "\n">>, count |-> 1]

\* a quote opens on the line outside any comment and no later character of
\* the line can close it
NeverCloses(line) ==
    \E p \in 1..Len(line) :
        /\ line[p] \in {"'", "\""}
        /\ \A k \in 1..(p - 1) : line[k] \notin {"'", "\"", "#"}
        /\ \A k \in (p + 1)..Len(line) : line[k] # line[p]

\* C17 (shell per-line quote reset): the shell scanner starts every line
\* with both quote flags false whatever the previous lines contained; on a
\* line whose quote never closes no "#" starts a comment and the whole
\* line is copied; on any line, also one that follows such a line, a "#"
\* with no quote character before it starts a comment.
C17_PerLineReset ==
    /\ []((lang = "shell" /\ pc = "while" /\ sh.j = 0) =>
              (~sh.in_single_quote /\ ~sh.in_double_quote))
    /\ [][/\ (ShellEndLine /\ NeverCloses(ShellLine(sh))) =>
                /\ ~sh.broke
                /\ sh.in_single_quote \/ sh.in_double_quote
                /\ sh.cleaned_line = ShellLine(sh)
          /\ (ShellIter /\ Get(ShellLine(sh), sh.j) = "#"
                /\ \A k \in 1..sh.j : ShellLine(sh)[k] \notin {"'", "\""}) =>
                /\ pc' = "eol"
                /\ sh.i > 0 => sh'.comments_removed = sh.comments_removed + 1
         ]_vars

C17_Witness ==
    /\ Returned /\ pass = 1 /\ lang = "shell"
    /\ content = <<"'", "#", "\n", "#">>
    /\ Last = [text |-> <<"'", "#", "\n">>, count |-> 1]

\* position of the first backtick after position a that is not immediately
\* preceded by a backslash, 0 when there is none
RECURSIVE ClosingBacktick(_, _)
ClosingBacktick(text, k) ==
    IF k > Len(text) THEN 0
    ELSE IF text[k] = BackTick /\ text[k - 1] # "\\" THEN k
    ELSE ClosingBacktick(text, k + 1)

OnlyInBacktick ==
    /\ cl.in_backtick
    /\ ~cl.in_single /\ ~cl.in_double
    /\ ~cl.in_line_comment /\ ~cl.in_block_comment

\* C18 (backtick literals): in the C-like scanner, after plain code and an
\* opening backtick, backtick mode holds at every scan position up to the
\* first backtick that is not immediately preceded by a backslash,
\* newlines included; every character scanned in it is emitted, no comment
\* is opened or counted, and the scanner is in Normal mode right after
\* that backtick; a backslash before any other character escapes nothing.
C18_BacktickLiteral ==
    lang = "c_like" =>
        \A a \in 1..Len(content) :
            (Plain(SubSeq(content, 1, a - 1)) /\ content[a] = BackTick) =>
                LET e == ClosingBacktick(content, a + 1)
                IN  /\ (cl.i >= a /\ (e = 0 \/ cl.i < e)) =>
                           /\ OnlyInBacktick
                           /\ cl.out_chars = SubSeq(content, 1, cl.i)
                           /\ cl.comments_removed = 0
                    /\ (e # 0 /\ cl.i = e) =>
                           /\ Unquoted
                           /\ cl.out_chars = SubSeq(content, 1, e)
                           /\ cl.comments_removed = 0

C18_Witness ==
    /\ Returned /\ pass = 1 /\ lang = "c_like"
    /\ content = <<BackTick, "\\", "\\", BackTick>>
    /\ cl.in_backtick
    /\ Last = [text |-> content, count |-> 0]

OnlyInBlockComment ==
    /\ cl.in_block_comment
    /\ ~cl.in_single /\ ~cl.in_double /\ ~cl.in_backtick
    /\ ~cl.in_line_comment

OnlyInLineComment ==
    /\ cl.in_line_comment
    /\ ~cl.in_single /\ ~cl.in_double /\ ~cl.in_backtick
    /\ ~cl.in_block_comment

\* C19 (block-comment delimiters do not overlap or nest): in the C-like
\* scanner, after plain code, a block comment opened by "/*" holds at every
\* scan position up to the first "*/" that starts after the opening "*"
\* (so "/*/" does not close it), with the counter at 1 whatever "/*" or
\* "//" it contains, and the position after that "*/" is scanned in Normal
\* mode; a line comment holds up to its newline whatever "/*" it contains.
C19_BlockDelimiters ==
    lang = "c_like" =>
        \A a \in 1..(Len(content) - 1) :
            (Plain(SubSeq(content, 1, a - 1)) /\ content[a] = "/") =>
                /\ content[a + 1] = "*" =>
                       LET b == FindPair(content, "*", "/", a + 2)
                       IN  /\ (cl.i > a /\ (b = 0 \/ cl.i < b)) =>
                                  /\ OnlyInBlockComment
                                  /\ cl.comments_removed = 1
                                  /\ cl.out_chars = SubSeq(content, 1, a - 1)
                           /\ (b # 0 /\ cl.i = b + 1) =>
                                  /\ Unquoted
                                  /\ cl.comments_removed = 1
                                  /\ cl.out_chars = SubSeq(content, 1, a - 1)
                /\ content[a + 1] = "/" =>
                       LET e == FindChar(content, "\n", a + 2)
                       IN  /\ (cl.i > a /\ (e = 0 \/ cl.i < e)) =>
                                  /\ OnlyInLineComment
                                  /\ cl.comments_removed = 1
                                  /\ cl.out_chars = SubSeq(content, 1, a - 1)
                           /\ (e # 0 /\ cl.i = e) =>
                                  /\ Unquoted
                                  /\ cl.comments_removed = 1

C19_Witness ==
    /\ Returned /\ pass = 1 /\ lang = "c_like"
    /\ content = NestedInput
    /\ Last = [text |-> <<"a">>, count |-> 1]

\* --- process_directory ---

\* what the scanner of target k returns for the content the file had
Scanned(k) ==
    IF targets[k].lang = "shell"
    THEN remove_comments_from_shell(targets[k].content, preserve_shebang)
    ELSE remove_comments_from_c_like(targets[k].content)

ReadFailed(k) == ~targets[k].readable

WriteFailed(k) == log[k].wrote \in {"open_failed", "write_failed"}

Written(k) == log[k].wrote = "ok"

RECURSIVE SumTo(_, _)
SumTo(F(_), n) == IF n = 0 THEN 0 ELSE F(n) + SumTo(F, n - 1)

\* C11: a failed read or write makes process_file return False without
\* raising; the loop goes on with the remaining targets in order, so that
\* processed_files ends as the number of targets and the summary is
\* printed; a failed file adds nothing to total_comments_removed or to
\* the count of modified files.
C11_FailureRecovery ==
    /\ [](/\ dpc # "aborted"
          /\ \A k \in 1..Len(log) :
                /\ ~log[k].raises
                /\ (ReadFailed(k) \/ WriteFailed(k)) => ~log[k].ret
                /\ log[k].scanned = targets[k].readable
                /\ log[k].scanned => log[k].cleaned = Scanned(k).text
          /\ processed_files = Len(log)
          /\ LET Share(k) ==
                     IF ReadFailed(k) \/ WriteFailed(k) \/ ~Written(k)
                     THEN 0 ELSE Scanned(k).count
             IN  total_comments_removed = SumTo(Share, Len(log))
          /\ modified_files =
                Cardinality({k \in 1..Len(log) :
                    ~ReadFailed(k) /\ ~WriteFailed(k) /\ log[k].ret})
          /\ summary # <<>> =>
                processed_files = Len(targets) /\ summary[1] = Len(targets))
    /\ (is_dir /\ targets # <<>>) ~> (summary # <<>>)

\* the first file could not be read, the second was cleaned and written
C11_Witness ==
    /\ dpc = "done" /\ Len(log) = 2
    /\ ReadFailed(1) /\ ~log[1].ret
    /\ Written(2) /\ log[2].ret
    /\ processed_files = 2 /\ modified_files = 1
    /\ total_comments_removed = 1
    /\ summary # <<>>

\* the scan of the file has returned and is what the run to completion says
ScanAgrees ==
    Returned =>
        Last = (IF lang = "shell"
                THEN remove_comments_from_shell(content, preserve_shebang)
                ELSE remove_comments_from_c_like(content))

C20_PersistenceGating ==
    /\ \A k \in 1..Len(log) :
        /\ disk[k] # targets[k].content =>
               log[k].removed > 0 /\ ~dry_run /\ Written(k)
        /\ (log[k].scanned /\ log[k].removed = 0) =>
               /\ disk[k] = targets[k].content
               /\ log[k].cleaned = targets[k].content
    /\ LET Count(k) == IF Written(k) THEN log[k].removed ELSE 0
       IN  total_comments_removed = SumTo(Count, Len(log))

=============================================================================
